---- MODULE Spec2Model ----
(***************************************************************************)
(* Model of webio_api/__init__.py: the WebioAPI facade, its retained       *)
(* Output and Zone collections and the reconciliation of status snapshots. *)
(*                                                                         *)
(* Python values are modelled as follows.                                  *)
(*   dict        a function whose DOMAIN is the set of keys present        *)
(*   list        a sequence                                                *)
(*   object      a reference (a position in outHeap / zoneHeap); the       *)
(*               retained lists self.outputs / self.zones hold references, *)
(*               so an object dropped from a list still exists on the heap *)
(*   None        the string "None"; Python True / False stored in          *)
(*               Output.state are the strings "True" / "False"             *)
(*   str         a string, except the device serial, which is a sequence   *)
(*               of characters so that str.replace can be computed         *)
(***************************************************************************)
EXTENDS Integers, Sequences, FiniteSets, TLC

\* The facade: self._info, self.outputs, self.zones, and the Output and Zone objects.
VARIABLES info, outputs, zones, outHeap, zoneHeap

\* The call in progress at the caller: op is the method that has just returned
\* ("idle" when the caller holds no call), arg its argument, ret its result, exc the
\* exception it raised, pre the facade as it was when the call began, and repeated
\* whether the call before it was the same method with the same argument.
VARIABLES op, arg, ret, exc, pre, repeated

\* Whether some refresh_device_info call has returned true.
VARIABLES refreshed

vars == <<info, outputs, zones, outHeap, zoneHeap, op, arg, ret, exc, pre, repeated, refreshed>>

None == "None"

NoRef == 0

\* Keys of the status snapshot and of the device info (webio_api.const).
KEY_INDEX == "index"

KEY_STATUS == "status"

KEY_NAME == "name"

KEY_PASS_TYPE == "passType"

KEY_OUTPUTS == "outputs"

KEY_ZONES == "zones"

KEY_WEBIO_SERIAL == "webio_serial"

KEY_WEBIO_NAME == "webio_name"

KEY_DEVICE_SERIAL == "serial"

KEY_DEVICE_NAME == "name"

(***************************************************************************)
(* Bounds of the model.                                                    *)
(***************************************************************************)
\* Longest descriptor list of one category in a snapshot.
MaxLen == 2

\* Most Output objects, and most Zone objects, ever constructed.
MaxObjs == 2

\* Largest valid index a descriptor carries (indexes are -1 .. MaxIndex).
MaxIndex == 1

Range(s) == {s[k] : k \in DOMAIN s}

SeqUpTo(S, n) == UNION {[1..k -> S] : k \in 0..n}

\* dict.get(key, default)
Get(d, key, default) == IF key \in DOMAIN d THEN d[key] ELSE default

\* The dict d restricted to the keys K (a payload in which the other keys are missing).
Restrict(d, K) == [k \in K |-> d[k]]

(***************************************************************************)
(* Inputs: what the device may send.                                       *)
(***************************************************************************)
IndexValues == (-1)..MaxIndex

OutputStatusValues == {"true", "false", "on"}

ZoneStatusValues == {"armed"}

ZoneNameValues == {"hall"}

PassTypeValues == {0}

\* An output descriptor with a valid index: the "status" possibly missing.
ValidOutputDescriptors ==
    {Restrict(d, K \cup {KEY_INDEX}) : d \in [index : 0..MaxIndex, status : OutputStatusValues],
                                       K \in SUBSET {KEY_STATUS}}

\* A zone descriptor with a valid index: "name", "status" and "passType", each
\* possibly missing.
ValidZoneDescriptors ==
    {Restrict(d, K \cup {KEY_INDEX}) : d \in [index : 0..MaxIndex, name : ZoneNameValues,
                                              status : ZoneStatusValues,
                                              passType : PassTypeValues],
                                       K \in SUBSET {KEY_NAME, KEY_STATUS, KEY_PASS_TYPE}}

\* The malformed descriptors among ds: the index missing, and the index negative.
Malformed(ds) ==
    {Restrict(d, DOMAIN d \ {KEY_INDEX}) : d \in ds} \cup {[d EXCEPT ![KEY_INDEX] = -1] : d \in ds}

\* The descriptors that carry every field.
FullOutputDescriptors == {d \in ValidOutputDescriptors : DOMAIN d = {KEY_INDEX, KEY_STATUS}}

FullZoneDescriptors ==
    {d \in ValidZoneDescriptors : DOMAIN d = {KEY_INDEX, KEY_NAME, KEY_STATUS, KEY_PASS_TYPE}}

\* The descriptors of ds for the device's first entity.
First(ds) == {d \in ds : d[KEY_INDEX] = 0}

OutputDescriptors ==
    ValidOutputDescriptors
        \cup Malformed({d \in First(FullOutputDescriptors) : d[KEY_STATUS] = "true"})

ZoneDescriptors == ValidZoneDescriptors \cup Malformed(First(FullZoneDescriptors))

\* The part of a snapshot under one key: the key missing, or a list.
Part(key, lists) == {<<>>} \cup {(key :> l) : l \in lists}

\* Status snapshots with any output list, and a zone list of at most one descriptor,
\* which carries every field or is malformed.
Snapshots ==
    {o @@ z : o \in Part(KEY_OUTPUTS, SeqUpTo(OutputDescriptors, MaxLen)),
              z \in Part(KEY_ZONES, SeqUpTo(FullZoneDescriptors
                                                \cup Malformed(First(FullZoneDescriptors)), 1))}

\* Status snapshots with any zone list, and no output descriptor.
ZoneSnapshots ==
    {o @@ z : o \in Part(KEY_OUTPUTS, {<<>>}),
              z \in Part(KEY_ZONES, SeqUpTo(ZoneDescriptors, MaxLen))}

\* Every status code of a zone the code knows, and one it does not know.
AllZoneStatusValues == {"alarm", "armed", "disarmed", "fault"}

\* Zone descriptors with a valid index and a name, and any status or none.
StatusZoneDescriptors ==
    {Restrict(d, K \cup {KEY_INDEX, KEY_NAME}) :
        d \in [index : 0..MaxIndex, name : ZoneNameValues, status : AllZoneStatusValues],
        K \in SUBSET {KEY_STATUS}}

\* Status snapshots of at most one output and one zone descriptor, over every status.
StatusSnapshots ==
    {o @@ z : o \in Part(KEY_OUTPUTS, SeqUpTo(ValidOutputDescriptors, 1)),
              z \in Part(KEY_ZONES, SeqUpTo(StatusZoneDescriptors, 1))}

\* Status snapshots of descriptors that carry every field, and whose outputs are on:
\* any output list, and a zone list of at most one descriptor.
PruneSnapshots ==
    {o @@ z : o \in Part(KEY_OUTPUTS,
                         SeqUpTo({d \in FullOutputDescriptors : d[KEY_STATUS] = "true"},
                                 MaxLen)),
              z \in Part(KEY_ZONES, SeqUpTo(FullZoneDescriptors, 1))}

\* The serial as the device reports it, character by character.
SerialValues == {<<"7", "-", "3">>}

DeviceNameValues == {"webio"}

\* A value of the "webio_serial" field: a str, or a value of another type (an int).
SerialFieldValues == {[type |-> "str", chars |-> c] : c \in SerialValues} \cup {[type |-> "int"]}

\* The response of ApiClient.get_info: serial and name, each possibly missing.
InfoResponses ==
    {Restrict(d, K) : d \in [webio_serial : SerialFieldValues, webio_name : DeviceNameValues],
                      K \in SUBSET {KEY_WEBIO_SERIAL, KEY_WEBIO_NAME}}

(***************************************************************************)
(* Entity records.                                                         *)
(***************************************************************************)
\* Output.__init__
Output(index, serial, state) ==
    [index |-> index, state |-> state, available |-> (state # None), webio_serial |-> serial]

\* Zone.__init__
Zone(index, serial, state) ==
    [index |-> index, name |-> None, state |-> state, pass_type |-> 2,
     available |-> (state # None), webio_serial |-> serial]

(***************************************************************************)
(* Status code translation.                                                *)
(***************************************************************************)
\* Mutant of convert_outputs_status: every code other than "true" reads as off.
convert_outputs_status_two_valued(output_status) ==
    IF output_status = None THEN None
    ELSE IF output_status = "true" THEN "True"
    ELSE "False"

convert_outputs_status(output_status) ==
    IF output_status = None THEN None
    ELSE IF output_status = "true" THEN "True"
    ELSE IF output_status = "false" THEN "False"
    ELSE None

convert_zone_status(zone_status) ==
    IF zone_status = None THEN None
    ELSE IF zone_status = "alarm" THEN "triggered"
    ELSE IF zone_status = "armed" THEN "armed_away"
    ELSE IF zone_status = "disarmed" THEN "disarmed"
    ELSE None

(***************************************************************************)
(* Lookup by index: the first entity of the list with that index.          *)
(***************************************************************************)
FirstWithIndex(list, heap, index) ==
    LET hits == {k \in DOMAIN list : heap[list[k]].index = index}
    IN  IF hits = {} THEN NoRef
        ELSE list[CHOOSE k \in hits : \A j \in hits : k <= j]

\* Mutant of get_output: compares the object, not its index, and so finds nothing.
get_output_compares_object(outs, heap, index) == NoRef

\* Mutant of get_output: the index is taken as the position in the list.
get_output_by_position(outs, heap, index) ==
    IF index + 1 \in DOMAIN outs THEN outs[index + 1] ELSE NoRef

\* Mutant of get_output: every Output ever created is searched, retained or not.
get_output_searches_all(outs, heap, index) ==
    FirstWithIndex([r \in DOMAIN heap |-> r], heap, index)

get_output(outs, heap, index) == FirstWithIndex(outs, heap, index)

\* Mutant of get_zone: compares the object, not its index, and so finds nothing.
get_zone_compares_object(zs, heap, index) == NoRef

get_zone(zs, heap, index) == FirstWithIndex(zs, heap, index)

(***************************************************************************)
(* Reconciliation of one category.  The loops work on an accumulator       *)
(*   list             self.outputs / self.zones                            *)
(*   heap             the objects                                          *)
(*   current_indexes  the indexes seen this round                          *)
(*   new              the newly created entities                           *)
(*   raised           None, or the exception that ended the loop           *)
(***************************************************************************)
\* Mutant of MarkUnavailable: the pass is left out.
MarkUnavailable_left_out(list, heap) == heap

\* Mutant of MarkUnavailable: a zone is put back to what its constructor sets.
MarkUnavailable_resets(list, heap) ==
    [r \in DOMAIN heap |->
        IF r \notin Range(list) THEN heap[r]
        ELSE IF "pass_type" \in DOMAIN heap[r]
        THEN [heap[r] EXCEPT !.state = None, !.available = FALSE,
                             !.name = None, !.pass_type = 2]
        ELSE [heap[r] EXCEPT !.state = None, !.available = FALSE]]

\* Lines 127-129 and 158-160: every retained entity becomes unavailable.
MarkUnavailable(list, heap) ==
    [r \in DOMAIN heap |->
        IF r \in Range(list)
        THEN [heap[r] EXCEPT !.state = None, !.available = FALSE]
        ELSE heap[r]]

\* Mutant of WriteOutput: line 145 is left out, available stays as the pass left it.
WriteOutput_state_only(acc, ref, o) ==
    [acc EXCEPT !.heap[ref].state = convert_outputs_status(Get(o, KEY_STATUS, None))]

\* Lines 144-145.
WriteOutput(acc, ref, o) ==
    LET st == convert_outputs_status(Get(o, KEY_STATUS, None))
    IN  [acc EXCEPT !.heap[ref].state = st, !.heap[ref].available = (st # None)]

\* Mutant of CreateOutput: the new entity is not added to the list that is returned.
CreateOutput_unreported(acc, index, inf) ==
    IF KEY_DEVICE_SERIAL \notin DOMAIN inf
    THEN [acc EXCEPT !.raised = "KeyError"]
    ELSE LET ref == Len(acc.heap) + 1
         IN  [acc EXCEPT !.heap = Append(@, Output(index, inf[KEY_DEVICE_SERIAL], None)),
                         !.list = Append(@, ref)]

\* Lines 139-143: self._info[KEY_DEVICE_SERIAL] raises KeyError when no serial is stored.
CreateOutput(acc, index, inf) ==
    IF KEY_DEVICE_SERIAL \notin DOMAIN inf
    THEN [acc EXCEPT !.raised = "KeyError"]
    ELSE LET ref == Len(acc.heap) + 1
         IN  [acc EXCEPT !.heap = Append(@, Output(index, inf[KEY_DEVICE_SERIAL], None)),
                         !.list = Append(@, ref),
                         !.new = Append(@, ref)]

\* Mutant of OutputStep: the index is recorded as seen before it is checked.
OutputStep_records_first(acc, o, inf) ==
    LET index == Get(o, KEY_INDEX, -1)
        seen == [acc EXCEPT !.current_indexes = Append(@, index)]
    IN  IF index < 0 THEN seen
        ELSE LET webio_output == get_output(seen.list, seen.heap, index)
             IN  IF webio_output = NoRef
                 THEN LET made == CreateOutput(seen, index, inf)
                      IN  IF made.raised # None THEN made
                          ELSE WriteOutput(made, made.list[Len(made.list)], o)
                 ELSE WriteOutput(seen, webio_output, o)

\* Mutant of OutputStep: an entity that is found is replaced in the list by a new
\* object, which is then written, and not written in place.
OutputStep_replaces_found(acc, o, inf) ==
    LET index == Get(o, KEY_INDEX, -1)
    IN  IF index < 0 THEN acc
        ELSE LET seen == [acc EXCEPT !.current_indexes = Append(@, index)]
                 webio_output == get_output(seen.list, seen.heap, index)
                 made == CreateOutput(seen, index, inf)
             IN  IF made.raised # None THEN made
                 ELSE IF webio_output = NoRef
                 THEN WriteOutput(made, made.list[Len(made.list)], o)
                 ELSE WriteOutput([made EXCEPT !.list = SelectSeq(@, LAMBDA r : r # webio_output),
                                               !.new = seen.new],
                                  Len(made.heap), o)

\* Lines 132-145: the body of the loop over the output descriptors.
OutputStep(acc, o, inf) ==
    LET index == Get(o, KEY_INDEX, -1)
    IN  IF index < 0 THEN acc
        ELSE LET seen == [acc EXCEPT !.current_indexes = Append(@, index)]
                 webio_output == get_output(seen.list, seen.heap, index)
             IN  IF webio_output = NoRef
                 THEN LET made == CreateOutput(seen, index, inf)
                      IN  IF made.raised # None THEN made
                          ELSE WriteOutput(made, made.list[Len(made.list)], o)
                 ELSE WriteOutput(seen, webio_output, o)

RECURSIVE OutputLoop(_, _, _)
OutputLoop(acc, descriptors, inf) ==
    IF descriptors = <<>> \/ acc.raised # None THEN acc
    ELSE OutputLoop(OutputStep(acc, Head(descriptors), inf), Tail(descriptors), inf)

\* Mutant of Prune: nothing is removed.
Prune_keeps_all(acc) == acc

\* Mutant of Prune: the guard on current_indexes is left out.
Prune_unguarded(acc) ==
    [acc EXCEPT !.list = SelectSeq(@, LAMBDA r : acc.heap[r].index \in Range(acc.current_indexes))]

\* Lines 146-151 and 182-183: keep the entities whose index was seen, if any index was.
Prune(acc) ==
    IF Len(acc.current_indexes) > 0
    THEN [acc EXCEPT !.list = SelectSeq(@, LAMBDA r : acc.heap[r].index \in Range(acc.current_indexes))]
    ELSE acc

update_outputs(outs, heap, inf, descriptors) ==
    LET start == [list |-> outs, heap |-> MarkUnavailable(outs, heap),
                  current_indexes |-> <<>>, new |-> <<>>, raised |-> None]
        done == OutputLoop(start, descriptors, inf)
    IN  IF done.raised # None THEN done ELSE Prune(done)

\* Mutant of WriteZone: a descriptor without passType leaves pass_type as it is.
WriteZone_keeps_pass_type(acc, ref, z) ==
    LET st == convert_zone_status(Get(z, KEY_STATUS, None))
    IN  [acc EXCEPT !.heap[ref].name = Get(z, KEY_NAME, None),
                    !.heap[ref].state = st,
                    !.heap[ref].available = (st # None),
                    !.heap[ref].pass_type = Get(z, KEY_PASS_TYPE, acc.heap[ref].pass_type)]

\* Mutant of WriteZone: a descriptor without name leaves the name as it is.
WriteZone_keeps_name(acc, ref, z) ==
    LET st == convert_zone_status(Get(z, KEY_STATUS, None))
    IN  [acc EXCEPT !.heap[ref].name = Get(z, KEY_NAME, acc.heap[ref].name),
                    !.heap[ref].state = st,
                    !.heap[ref].available = (st # None),
                    !.heap[ref].pass_type = Get(z, KEY_PASS_TYPE, 2)]

\* Lines 177-180.
WriteZone(acc, ref, z) ==
    LET st == convert_zone_status(Get(z, KEY_STATUS, None))
    IN  [acc EXCEPT !.heap[ref].name = Get(z, KEY_NAME, None),
                    !.heap[ref].state = st,
                    !.heap[ref].available = (st # None),
                    !.heap[ref].pass_type = Get(z, KEY_PASS_TYPE, 2)]

\* Lines 172-176.
CreateZone(acc, index, inf) ==
    IF KEY_DEVICE_SERIAL \notin DOMAIN inf
    THEN [acc EXCEPT !.raised = "KeyError"]
    ELSE LET ref == Len(acc.heap) + 1
         IN  [acc EXCEPT !.heap = Append(@, Zone(index, inf[KEY_DEVICE_SERIAL], None)),
                         !.list = Append(@, ref),
                         !.new = Append(@, ref)]

\* Lines 163-180: the body of the loop over the zone descriptors.
ZoneStep(acc, z, inf) ==
    LET index == Get(z, KEY_INDEX, -1)
    IN  IF index < 0 THEN acc
        ELSE LET seen == [acc EXCEPT !.current_indexes = Append(@, index)]
                 webio_zone == get_zone(seen.list, seen.heap, index)
             IN  IF webio_zone = NoRef
                 THEN LET made == CreateZone(seen, index, inf)
                      IN  IF made.raised # None THEN made
                          ELSE WriteZone(made, made.list[Len(made.list)], z)
                 ELSE WriteZone(seen, webio_zone, z)

RECURSIVE ZoneLoop(_, _, _)
ZoneLoop(acc, descriptors, inf) ==
    IF descriptors = <<>> \/ acc.raised # None THEN acc
    ELSE ZoneLoop(ZoneStep(acc, Head(descriptors), inf), Tail(descriptors), inf)

update_zones(zs, heap, inf, descriptors) ==
    LET start == [list |-> zs, heap |-> MarkUnavailable(zs, heap),
                  current_indexes |-> <<>>, new |-> <<>>, raised |-> None]
        done == ZoneLoop(start, descriptors, inf)
    IN  IF done.raised # None THEN done ELSE Prune(done)

(***************************************************************************)
(* The facade.                                                             *)
(***************************************************************************)
\* The facade's fields as one record.
Facade == [info |-> info, outputs |-> outputs, zones |-> zones,
           outHeap |-> outHeap, zoneHeap |-> zoneHeap]

\* Mutant of Skipped: a missing key is read as an empty list (get(key, [])).
Skipped_as_empty(list, heap) ==
    [list |-> list, heap |-> MarkUnavailable(list, heap),
     current_indexes |-> <<>>, new |-> <<>>, raised |-> None]

\* A category left alone: the key is missing from the snapshot (lines 107-108, 114-115).
Skipped(list, heap) ==
    [list |-> list, heap |-> heap, current_indexes |-> <<>>, new |-> <<>>, raised |-> None]

\* update_device_status on the facade f: the facade afterwards, the returned delta
\* and the exception raised, if any.  An exception in _update_outputs leaves
\* _update_zones uncalled.
update_device_status(f, new_status) ==
    LET o == IF KEY_OUTPUTS \in DOMAIN new_status
             THEN update_outputs(f.outputs, f.outHeap, f.info, new_status[KEY_OUTPUTS])
             ELSE Skipped(f.outputs, f.outHeap)
        z == IF o.raised # None \/ KEY_ZONES \notin DOMAIN new_status
             THEN Skipped(f.zones, f.zoneHeap)
             ELSE update_zones(f.zones, f.zoneHeap, f.info, new_status[KEY_ZONES])
        raised == IF o.raised # None THEN o.raised ELSE z.raised
    IN  [facade |-> [info |-> f.info, outputs |-> o.list, zones |-> z.list,
                     outHeap |-> o.heap, zoneHeap |-> z.heap],
         ret |-> IF raised # None THEN <<>> ELSE [outputs |-> o.new, zones |-> z.new],
         exc |-> raised]

\* str.replace("-", "")
StripHyphens(chars) == SelectSeq(chars, LAMBDA c : c # "-")

\* refresh_device_info on the stored info inf with the response response:
\* the stored info afterwards and the returned boolean.
refresh_device_info(inf, response) ==
    IF KEY_WEBIO_SERIAL \notin DOMAIN response
    THEN [info |-> inf, ret |-> FALSE]                       \* KeyError, line 93
    ELSE IF response[KEY_WEBIO_SERIAL].type # "str"
    THEN [info |-> inf, ret |-> FALSE]                       \* AttributeError, line 94
    ELSE LET stored == (KEY_DEVICE_SERIAL :> StripHyphens(response[KEY_WEBIO_SERIAL].chars))
                           @@ inf
         IN  IF KEY_WEBIO_NAME \notin DOMAIN response
             THEN [info |-> stored, ret |-> FALSE]           \* KeyError, line 95
             ELSE [info |-> (KEY_DEVICE_NAME :> response[KEY_WEBIO_NAME]) @@ stored,
                   ret |-> TRUE]

get_serial_number(inf) == Get(inf, KEY_DEVICE_SERIAL, None)

(***************************************************************************)
(* Commands of the entities.  Each forwards one request to the transport   *)
(* (ApiClient.set_output, ApiClient.arm_zone): the operators give the      *)
(* objects afterwards and the request sent.                                *)
(***************************************************************************)
\* Mutant of turn_on: the state is set ahead of the device's next snapshot.
turn_on_sets_state(heap, ref) ==
    [heap |-> [heap EXCEPT ![ref].state = "True", ![ref].available = TRUE],
     request |-> [call |-> "set_output", index |-> heap[ref].index, value |-> TRUE]]

\* Output.turn_on
turn_on(heap, ref) ==
    [heap |-> heap,
     request |-> [call |-> "set_output", index |-> heap[ref].index, value |-> TRUE]]

\* Output.turn_off
turn_off(heap, ref) ==
    [heap |-> heap,
     request |-> [call |-> "set_output", index |-> heap[ref].index, value |-> FALSE]]

\* Zone.arm
arm(heap, ref, passcode) ==
    [heap |-> heap,
     request |-> [call |-> "arm_zone", index |-> heap[ref].index, value |-> TRUE,
                  passcode |-> passcode]]

\* Zone.disarm
disarm(heap, ref, passcode) ==
    [heap |-> heap,
     request |-> [call |-> "arm_zone", index |-> heap[ref].index, value |-> FALSE,
                  passcode |-> passcode]]

\* The passcodes a caller passes: none, or one.
PasscodeValues == {None, "1234"}

(***************************************************************************)
(* The state machine.                                                      *)
(***************************************************************************)
NoFacade == [info |-> <<>>, outputs |-> <<>>, zones |-> <<>>, outHeap |-> <<>>, zoneHeap |-> <<>>]

\* WebioAPI.__init__
Init ==
    /\ info = <<>>
    /\ outputs = <<>>
    /\ zones = <<>>
    /\ outHeap = <<>>
    /\ zoneHeap = <<>>
    /\ op = "idle"
    /\ arg = <<>>
    /\ ret = <<>>
    /\ exc = None
    /\ pre = NoFacade
    /\ repeated = FALSE
    /\ refreshed = FALSE

\* await refresh_device_info(), the transport answering with any response.
RefreshDeviceInfo ==
    /\ op = "idle"
    /\ \E response \in InfoResponses :
        \E r \in {refresh_device_info(info, response)} :
            /\ info' = r.info
            /\ ret' = r.ret
            /\ exc' = None
            /\ op' = "refresh_device_info"
            /\ arg' = response
            /\ pre' = Facade
            /\ repeated' = FALSE
            /\ refreshed' = (refreshed \/ r.ret)
            /\ UNCHANGED <<outputs, zones, outHeap, zoneHeap>>

\* update_device_status(new_status): a caller that holds no call passes any snapshot
\* of statuses; a caller whose update_device_status has just returned passes the same
\* snapshot again.
\* No call creates more than objs objects of a category altogether.
UpdateDeviceStatusWithin(statuses, objs) ==
    /\ op \in {"idle", "update_device_status"}
    /\ \E new_status \in (IF op = "idle" THEN statuses ELSE {arg}) :
        \E r \in {update_device_status(Facade, new_status)} :
            /\ Len(r.facade.outHeap) <= objs
            /\ Len(r.facade.zoneHeap) <= objs
            /\ outputs' = r.facade.outputs
            /\ zones' = r.facade.zones
            /\ outHeap' = r.facade.outHeap
            /\ zoneHeap' = r.facade.zoneHeap
            /\ ret' = r.ret
            /\ exc' = r.exc
            /\ op' = "update_device_status"
            /\ arg' = new_status
            /\ pre' = Facade
            /\ repeated' = (op = "update_device_status")
            /\ UNCHANGED <<info, refreshed>>

UpdateDeviceStatus(statuses) == UpdateDeviceStatusWithin(statuses, MaxObjs)

\* The caller is done with the call: it drops the argument and the result.
Return ==
    /\ op # "idle"
    /\ op' = "idle"
    /\ arg' = <<>>
    /\ ret' = <<>>
    /\ exc' = None
    /\ pre' = NoFacade
    /\ repeated' = FALSE
    /\ UNCHANGED <<info, outputs, zones, outHeap, zoneHeap, refreshed>>

\* A command of an Output has sent its request: arg is the request the transport
\* receives.
OutputCommand(name, sent) ==
    /\ op = "idle"
    /\ outHeap' = sent.heap
    /\ op' = name
    /\ arg' = sent.request
    /\ ret' = None
    /\ exc' = None
    /\ pre' = Facade
    /\ repeated' = FALSE
    /\ UNCHANGED <<info, outputs, zones, zoneHeap, refreshed>>

\* A command of a Zone has sent its request.
ZoneCommand(name, sent) ==
    /\ op = "idle"
    /\ zoneHeap' = sent.heap
    /\ op' = name
    /\ arg' = sent.request
    /\ ret' = None
    /\ exc' = None
    /\ pre' = Facade
    /\ repeated' = FALSE
    /\ UNCHANGED <<info, outputs, zones, outHeap, refreshed>>

\* The commands, on any object the caller holds, retained or not, and for a Zone
\* with any passcode.
TurnOn == \E ref \in DOMAIN outHeap : OutputCommand("turn_on", turn_on(outHeap, ref))

TurnOff == \E ref \in DOMAIN outHeap : OutputCommand("turn_off", turn_off(outHeap, ref))

Arm ==
    \E ref \in DOMAIN zoneHeap, passcode \in PasscodeValues :
        ZoneCommand("arm", arm(zoneHeap, ref, passcode))

Disarm ==
    \E ref \in DOMAIN zoneHeap, passcode \in PasscodeValues :
        ZoneCommand("disarm", disarm(zoneHeap, ref, passcode))

Next ==
    \/ RefreshDeviceInfo
    \/ UpdateDeviceStatus(Snapshots)
    \/ TurnOn
    \/ TurnOff
    \/ Arm
    \/ Disarm
    \/ Return

Spec == Init /\ [][Next]_vars

NextZones ==
    \/ RefreshDeviceInfo
    \/ UpdateDeviceStatus(ZoneSnapshots)
    \/ Arm
    \/ Disarm
    \/ Return

SpecZones == Init /\ [][NextZones]_vars

NextStatus ==
    \/ RefreshDeviceInfo
    \/ UpdateDeviceStatus(StatusSnapshots)
    \/ Return

SpecStatus == Init /\ [][NextStatus]_vars

\* Room for one object more: an entity is created, pruned when another one is
\* created, and created again.
NextPrune ==
    \/ RefreshDeviceInfo
    \/ UpdateDeviceStatusWithin(PruneSnapshots, MaxObjs + 1)
    \/ TurnOn
    \/ TurnOff
    \/ Arm
    \/ Disarm
    \/ Return

SpecPrune == Init /\ [][NextPrune]_vars

(***************************************************************************)
(* Vocabulary of the properties.                                           *)
(***************************************************************************)
Categories == {KEY_OUTPUTS, KEY_ZONES}

Other(key) == IF key = KEY_OUTPUTS THEN KEY_ZONES ELSE KEY_OUTPUTS

\* The retained list and the objects of a category of the facade f.
ListOf(f, key) == IF key = KEY_OUTPUTS THEN f.outputs ELSE f.zones

HeapOf(f, key) == IF key = KEY_OUTPUTS THEN f.outHeap ELSE f.zoneHeap

\* The indexes retained in a category of the facade f.
Indexes(f, key) == {HeapOf(f, key)[r].index : r \in Range(ListOf(f, key))}

WellFormed(d) == KEY_INDEX \in DOMAIN d /\ d[KEY_INDEX] >= 0

\* The valid indexes a descriptor list carries.
ValidIndexes(descriptors) == {d[KEY_INDEX] : d \in {e \in Range(descriptors) : WellFormed(e)}}

\* The last descriptor of the list with the index i.
LastFor(descriptors, i) ==
    LET at == {k \in DOMAIN descriptors :
                   WellFormed(descriptors[k]) /\ descriptors[k][KEY_INDEX] = i}
    IN  descriptors[CHOOSE k \in at : \A j \in at : j <= k]

\* The entity e as the descriptor d of its category describes it.
Described(key, e, d) ==
    IF key = KEY_OUTPUTS
    THEN [e EXCEPT !.state = IF KEY_STATUS \notin DOMAIN d THEN None
                             ELSE CASE d[KEY_STATUS] = "true" -> "True"
                                    [] d[KEY_STATUS] = "false" -> "False"
                                    [] OTHER -> None,
                   !.available = KEY_STATUS \in DOMAIN d /\ d[KEY_STATUS] \in {"true", "false"}]
    ELSE [e EXCEPT !.state = IF KEY_STATUS \notin DOMAIN d THEN None
                             ELSE CASE d[KEY_STATUS] = "alarm" -> "triggered"
                                    [] d[KEY_STATUS] = "armed" -> "armed_away"
                                    [] d[KEY_STATUS] = "disarmed" -> "disarmed"
                                    [] OTHER -> None,
                   !.available = KEY_STATUS \in DOMAIN d
                                    /\ d[KEY_STATUS] \in {"alarm", "armed", "disarmed"},
                   !.name = IF KEY_NAME \in DOMAIN d THEN d[KEY_NAME] ELSE None,
                   !.pass_type = IF KEY_PASS_TYPE \in DOMAIN d THEN d[KEY_PASS_TYPE] ELSE 2]

\* update_device_status has just run, on the facade pre with the snapshot arg.
Updated == op = "update_device_status"

\* ... and has returned its delta.
Returned == Updated /\ exc = None

\* ... with a list for the category key in the snapshot.
Reconciled(key) == Updated /\ key \in DOMAIN arg

(***************************************************************************)
(* C1.  Idempotence: when update_device_status is applied a second time in *)
(* a row to the same non-empty snapshot, the second call returns no newly  *)
(* created entity, of either category, and leaves the facade (the retained *)
(* lists, the same objects, every field of them) as the first call left it.*)
(***************************************************************************)
C1_Idempotent ==
    (Updated /\ repeated /\ \E key \in DOMAIN arg : arg[key] # <<>>)
        => /\ \A key \in DOMAIN ret : ret[key] = <<>>
           /\ Facade = pre

C1_Witness ==
    /\ Returned /\ repeated
    /\ \A key \in Categories : Reconciled(key) /\ ValidIndexes(arg[key]) # {}
    /\ \E r \in Range(outputs) : outHeap[r].available
    /\ \E r \in Range(zones) : zoneHeap[r].available

(***************************************************************************)
(* C2.  Pruning: after a category has been reconciled with a snapshot that *)
(* lists at least one valid index, the retained indexes are exactly the    *)
(* valid indexes of the snapshot; an entity retained before whose index is *)
(* not listed is no longer in the retained list.                           *)
(***************************************************************************)
C2_PruneExact ==
    \A key \in Categories :
        (Returned /\ Reconciled(key) /\ ValidIndexes(arg[key]) # {})
            => /\ Indexes(Facade, key) = ValidIndexes(arg[key])
               /\ \A r \in Range(ListOf(pre, key)) :
                      HeapOf(pre, key)[r].index \notin ValidIndexes(arg[key])
                          => r \notin Range(ListOf(Facade, key))

C2_Witness ==
    /\ Returned
    /\ \A key \in Categories :
          /\ Reconciled(key) /\ ValidIndexes(arg[key]) # {}
          /\ \E r \in Range(ListOf(pre, key)) : r \notin Range(ListOf(Facade, key))
          /\ \E r \in Range(ListOf(Facade, key)) : r \notin Range(ListOf(pre, key))

C4_EmptyListKeepsAll ==
    \A key \in Categories :
        (Reconciled(key) /\ arg[key] = <<>>)
            => /\ ListOf(Facade, key) = ListOf(pre, key)
               /\ Len(HeapOf(Facade, key)) = Len(HeapOf(pre, key))
               /\ \A r \in Range(ListOf(Facade, key)) :
                      HeapOf(Facade, key)[r]
                          = [HeapOf(pre, key)[r] EXCEPT !.state = None, !.available = FALSE]
               /\ key \in DOMAIN ret => ret[key] = <<>>

C4_Witness ==
    /\ Returned
    /\ \A key \in Categories :
          /\ Reconciled(key) /\ arg[key] = <<>>
          /\ \E r \in Range(ListOf(pre, key)) : HeapOf(pre, key)[r].available

(***************************************************************************)
(* C5.  A category whose key is missing from the snapshot is untouched:    *)
(* its retained list and every field of every object of it are as before   *)
(* the call, and its returned delta is empty.  The other category is       *)
(* reconciled as its own list says.                                        *)
(***************************************************************************)
C5_AbsentUntouched ==
    \A key \in Categories :
        (Updated /\ key \notin DOMAIN arg)
            => /\ ListOf(Facade, key) = ListOf(pre, key)
               /\ HeapOf(Facade, key) = HeapOf(pre, key)
               /\ key \in DOMAIN ret => ret[key] = <<>>
               /\ Other(key) \in DOMAIN arg
                    => LET alone == IF key = KEY_OUTPUTS
                                    THEN update_zones(pre.zones, pre.zoneHeap, pre.info,
                                                      arg[KEY_ZONES])
                                    ELSE update_outputs(pre.outputs, pre.outHeap, pre.info,
                                                        arg[KEY_OUTPUTS])
                       IN  /\ ListOf(Facade, Other(key)) = alone.list
                           /\ HeapOf(Facade, Other(key)) = alone.heap
                           /\ exc = alone.raised
                           /\ exc = None => ret[Other(key)] = alone.new

C5_Witness ==
    /\ Returned
    /\ KEY_OUTPUTS \notin DOMAIN arg
    /\ \E r \in Range(pre.outputs) : pre.outHeap[r].available
    /\ KEY_ZONES \in DOMAIN arg
    /\ ret[KEY_ZONES] # <<>>

(***************************************************************************)
(* C6.  As claimed: update_device_status never raises; in every state of   *)
(* the facade and for every snapshot it returns a delta for both           *)
(* categories.                                                             *)
(***************************************************************************)
C6_NeverRaises == Updated => (exc = None /\ DOMAIN ret = Categories)

(***************************************************************************)
(* C7.  Malformed descriptors (index missing or negative) are skipped and  *)
(* nothing else: the call leaves the facade, returns the delta and raises  *)
(* what it would with the malformed descriptors taken out of the lists.    *)
(* So a malformed descriptor creates nothing, writes no field, and the     *)
(* descriptors before and after it are reconciled as without it.           *)
(***************************************************************************)
C7_MalformedSkipped ==
    Updated
        => LET clean == [key \in DOMAIN arg |-> SelectSeq(arg[key], WellFormed)]
               without == update_device_status(pre, clean)
           IN  /\ Facade = without.facade
               /\ ret = without.ret
               /\ exc = without.exc

C7_Witness ==
    /\ Returned
    /\ Reconciled(KEY_OUTPUTS)
    /\ Len(arg[KEY_OUTPUTS]) = 2
    /\ ~WellFormed(arg[KEY_OUTPUTS][1])
    /\ WellFormed(arg[KEY_OUTPUTS][2])
    /\ ret[KEY_OUTPUTS] # <<>>
    /\ \E r \in Range(pre.outputs) : r \notin Range(outputs)

(***************************************************************************)
(* C8.  As claimed: a refresh_device_info that returns false leaves the    *)
(* stored serial and name as they were, and get_serial_number returns None *)
(* as long as no refresh_device_info has returned true.                    *)
(***************************************************************************)
C8_FailedRefreshChangesNothing ==
    /\ (op = "refresh_device_info" /\ ret = FALSE) => info = pre.info
    /\ ~refreshed => get_serial_number(info) = None

(***************************************************************************)
(* C9.  Delta exactness: the list update_device_status returns for a       *)
(* category holds exactly one entity for each valid index of the snapshot  *)
(* that was not retained before the call, and no entity that was retained  *)
(* before; every returned entity is in the retained list after the call.   *)
(***************************************************************************)
C9_DeltaExact ==
    Returned
        => \A key \in Categories :
               LET listed == IF key \in DOMAIN arg THEN ValidIndexes(arg[key]) ELSE {}
                   fresh == listed \ Indexes(pre, key)
                   new == ret[key]
               IN  /\ {HeapOf(Facade, key)[r].index : r \in Range(new)} = fresh
                   /\ Len(new) = Cardinality(fresh)
                   /\ Range(new) \subseteq Range(ListOf(Facade, key))
                   /\ Range(new) \cap Range(ListOf(pre, key)) = {}

C9_Witness ==
    /\ Returned
    /\ \A key \in Categories :
          /\ ret[key] # <<>>
          /\ Indexes(pre, key) # {}
    /\ Len(arg[KEY_OUTPUTS]) = 2
    /\ Cardinality(ValidIndexes(arg[KEY_OUTPUTS])) = 2
    /\ Indexes(pre, KEY_OUTPUTS) \subseteq ValidIndexes(arg[KEY_OUTPUTS])

(***************************************************************************)
(* C10.  Reference stability: an entity retained before the call whose     *)
(* index the call does not prune (the snapshot lists the index, or its     *)
(* list for the category is empty, or it has no list for the category) is  *)
(* the entity retained for that index after the call, the same object, and *)
(* that object carries what the call wrote: the fields of the last         *)
(* descriptor listing it, or state None and available false for an empty   *)
(* list, or its fields as they were when the category is missing.          *)
(***************************************************************************)
C10_ReferenceStable ==
    \A key \in Categories :
        Updated
            => \A r \in Range(ListOf(pre, key)) :
                   LET was == HeapOf(pre, key)[r]
                       is == HeapOf(Facade, key)[r]
                   IN  /\ key \notin DOMAIN arg
                            => r \in Range(ListOf(Facade, key)) /\ is = was
                       /\ (key \in DOMAIN arg /\ arg[key] = <<>>)
                            => /\ r \in Range(ListOf(Facade, key))
                               /\ is = [was EXCEPT !.state = None, !.available = FALSE]
                       /\ (key \in DOMAIN arg /\ was.index \in ValidIndexes(arg[key]))
                            => /\ FirstWithIndex(ListOf(Facade, key), HeapOf(Facade, key),
                                                 was.index) = r
                               /\ is = Described(key, was, LastFor(arg[key], was.index))

C10_Witness ==
    /\ Returned
    /\ \A key \in Categories :
          /\ Reconciled(key)
          /\ \E r \in Range(ListOf(pre, key)) :
                /\ HeapOf(pre, key)[r].index \in ValidIndexes(arg[key])
                /\ HeapOf(pre, key)[r].state # HeapOf(Facade, key)[r].state
                /\ HeapOf(Facade, key)[r].available

(***************************************************************************)
(* C11.  Every Output and every Zone ever created, retained or pruned,     *)
(* has available = (state is not None), in every state between             *)
(* operations: after construction, after any update_device_status, after   *)
(* any refresh and after any command.                                      *)
(***************************************************************************)
AvailableIffStateKnown(heap) ==
    \A r \in DOMAIN heap : heap[r].available = (heap[r].state # None)

C11_AvailableIffStateKnown ==
    AvailableIffStateKnown(outHeap) /\ AvailableIffStateKnown(zoneHeap)

\* A command has just been sent while there are a pruned Output, a retained
\* available Output and a retained unavailable Zone.
C11_Witness ==
    /\ op \in {"turn_on", "turn_off"}
    /\ \E r \in DOMAIN outHeap : r \notin Range(outputs)
    /\ \E r \in Range(outputs) : outHeap[r].available
    /\ \E r \in Range(zones) : ~zoneHeap[r].available

(***************************************************************************)
(* C15.  turn_on, turn_off, arm and disarm change no entity's state or     *)
(* available and leave the retained output and zone collections as they    *)
(* were; altogether no operation other than update_device_status changes   *)
(* an entity's state.                                                      *)
(***************************************************************************)
Commands == {"turn_on", "turn_off", "arm", "disarm"}

StateOf(heap) == [r \in DOMAIN heap |-> <<heap[r].state, heap[r].available>>]

C15_CommandsChangeNoState ==
    op \notin {"idle", "update_device_status"} =>
        /\ StateOf(outHeap) = StateOf(pre.outHeap)
        /\ StateOf(zoneHeap) = StateOf(pre.zoneHeap)
        /\ outputs = pre.outputs
        /\ zones = pre.zones

\* turn_on has been sent for a retained Output whose state is False, and the
\* state is still False.
C15_Witness ==
    /\ op = "turn_on"
    /\ arg.value = TRUE
    /\ \E r \in Range(outputs) :
        /\ outHeap[r].index = arg.index
        /\ outHeap[r].state = "False"

(***************************************************************************)
(* C12.  After update_device_status has reconciled a descriptor with a     *)
(* valid index, the entity of that index has the state the descriptor's    *)
(* status translates to: for outputs "true" is True, "false" is False;     *)
(* for zones "alarm" is triggered, "armed" is armed_away, "disarmed" is    *)
(* disarmed; any other status and a missing status is None, and the entity *)
(* is then unavailable.  The status has no other effect: the call raises,  *)
(* creates and retains exactly as it does when every status is a           *)
(* recognized one.                                                         *)
(***************************************************************************)
OutputStateFor(d) ==
    IF KEY_STATUS \notin DOMAIN d THEN None
    ELSE CASE d[KEY_STATUS] = "true" -> "True"
           [] d[KEY_STATUS] = "false" -> "False"
           [] OTHER -> None

ZoneStateFor(d) ==
    IF KEY_STATUS \notin DOMAIN d THEN None
    ELSE CASE d[KEY_STATUS] = "alarm" -> "triggered"
           [] d[KEY_STATUS] = "armed" -> "armed_away"
           [] d[KEY_STATUS] = "disarmed" -> "disarmed"
           [] OTHER -> None

StateFor(key, d) == IF key = KEY_OUTPUTS THEN OutputStateFor(d) ELSE ZoneStateFor(d)

\* The snapshot with every status replaced by a recognized one.
Recognized(snapshot) ==
    [key \in DOMAIN snapshot |->
        [k \in DOMAIN snapshot[key] |->
            (KEY_STATUS :> (IF key = KEY_OUTPUTS THEN "true" ELSE "armed"))
                @@ snapshot[key][k]]]

C12_StatusTranslated ==
    Updated =>
        /\ \E u \in {update_device_status(pre, Recognized(arg))} :
            /\ exc = u.exc
            /\ ret = u.ret
            /\ outputs = u.facade.outputs
            /\ zones = u.facade.zones
        /\ Returned =>
            \A key \in DOMAIN arg : \A i \in ValidIndexes(arg[key]) :
                \E r \in Range(ListOf(Facade, key)) :
                    /\ HeapOf(Facade, key)[r].index = i
                    /\ HeapOf(Facade, key)[r].state = StateFor(key, LastFor(arg[key], i))
                    /\ HeapOf(Facade, key)[r].available
                           = (StateFor(key, LastFor(arg[key], i)) # None)

\* The call has created an Output from a descriptor with the status "on" and a Zone
\* from a descriptor with the status "fault": both are retained and unavailable.
C12_Witness ==
    /\ Returned
    /\ DOMAIN arg = Categories
    /\ \E r \in Range(ret[KEY_OUTPUTS]) :
        /\ r \in Range(outputs)
        /\ KEY_STATUS \in DOMAIN arg[KEY_OUTPUTS][1]
        /\ arg[KEY_OUTPUTS][1][KEY_STATUS] = "on"
        /\ ~outHeap[r].available
    /\ \E r \in Range(ret[KEY_ZONES]) :
        /\ r \in Range(zones)
        /\ KEY_STATUS \in DOMAIN arg[KEY_ZONES][1]
        /\ arg[KEY_ZONES][1][KEY_STATUS] = "fault"
        /\ ~zoneHeap[r].available

\* Each recognized status has been translated: one witness per row of the tables.
C12_WitnessRows ==
    /\ Returned
    /\ DOMAIN arg = Categories
    /\ \E r \in Range(outputs), q \in Range(zones) :
        /\ outHeap[r].state = "False"
        /\ zoneHeap[q].state = "triggered"

(***************************************************************************)
(* C13.  When several descriptors of one snapshot carry the same valid     *)
(* index, then after the call has returned the retained list holds exactly *)
(* one entity of that index, the delta holds it at most once, and its      *)
(* state and available (for a zone also its name and pass_type) are those  *)
(* of the last of these descriptors.                                       *)
(***************************************************************************)
\* The positions of the well-formed descriptors with the index i.
PositionsOf(descriptors, i) ==
    {k \in DOMAIN descriptors : WellFormed(descriptors[k]) /\ descriptors[k][KEY_INDEX] = i}

\* The positions of the list holding an entity of the index i.
Holding(list, heap, i) == {k \in DOMAIN list : heap[list[k]].index = i}

C13_DuplicateIndexLastWins ==
    \A key \in Categories :
        (Returned /\ Reconciled(key)) =>
            \A i \in ValidIndexes(arg[key]) :
                Cardinality(PositionsOf(arg[key], i)) > 1 =>
                    /\ Cardinality(Holding(ListOf(Facade, key), HeapOf(Facade, key), i)) = 1
                    /\ Cardinality(Holding(ret[key], HeapOf(Facade, key), i)) <= 1
                    /\ \A r \in Range(ListOf(Facade, key)) :
                        HeapOf(Facade, key)[r].index = i =>
                            HeapOf(Facade, key)[r]
                                = Described(key, HeapOf(Facade, key)[r], LastFor(arg[key], i))

\* Two zone descriptors of the same index that differ in name, status and passType
\* have created one zone, which has the fields of the second.
C13_Witness ==
    /\ Returned
    /\ Reconciled(KEY_ZONES)
    /\ Len(arg[KEY_ZONES]) = 2
    /\ DOMAIN arg[KEY_ZONES][1] = {KEY_INDEX, KEY_NAME, KEY_STATUS, KEY_PASS_TYPE}
    /\ DOMAIN arg[KEY_ZONES][2] = {KEY_INDEX}
    /\ arg[KEY_ZONES][1][KEY_INDEX] = arg[KEY_ZONES][2][KEY_INDEX]
    /\ Len(ret[KEY_ZONES]) = 1
    /\ zoneHeap[ret[KEY_ZONES][1]].pass_type = 2
    /\ zoneHeap[ret[KEY_ZONES][1]].name = None

(***************************************************************************)
(* C14.  After update_device_status has reconciled a zone descriptor, the  *)
(* zone's pass_type is the descriptor's passType, and 2 when the           *)
(* descriptor has none: for a zone this call created, and for a zone that  *)
(* had another pass_type before the call.                                  *)
(***************************************************************************)
PassTypeFor(d) == IF KEY_PASS_TYPE \in DOMAIN d THEN d[KEY_PASS_TYPE] ELSE 2

C14_PassTypeDefault ==
    (Returned /\ Reconciled(KEY_ZONES)) =>
        \A i \in ValidIndexes(arg[KEY_ZONES]) :
            /\ \E r \in Range(zones) : zoneHeap[r].index = i
            /\ \A r \in Range(zones) :
                zoneHeap[r].index = i
                    => zoneHeap[r].pass_type = PassTypeFor(LastFor(arg[KEY_ZONES], i))

\* Two descriptors without passType: one for a zone that had the pass_type 0, one
\* for a zone this call created; both zones have the pass_type 2.
C14_Witness ==
    /\ Returned
    /\ Reconciled(KEY_ZONES)
    /\ \A k \in DOMAIN arg[KEY_ZONES] : KEY_PASS_TYPE \notin DOMAIN arg[KEY_ZONES][k]
    /\ \E r \in Range(pre.zones) :
        /\ pre.zoneHeap[r].pass_type = 0
        /\ r \in Range(zones)
        /\ zoneHeap[r].pass_type = 2
    /\ \E r \in Range(ret[KEY_ZONES]) : zoneHeap[r].pass_type = 2

(***************************************************************************)
(* C17.  After update_device_status has returned from a snapshot whose     *)
(* list for a category has a descriptor with a valid index, the retained   *)
(* indexes of the category and the state, available, name and pass_type    *)
(* that go with each are fixed by the snapshot alone: they are what the    *)
(* last descriptor of each index says, and what the same snapshot gives on *)
(* a facade that has never retained anything.                              *)
(***************************************************************************)
Fields(key, e) ==
    IF key = KEY_OUTPUTS THEN <<e.index, e.state, e.available>>
    ELSE <<e.index, e.state, e.available, e.name, e.pass_type>>

\* The retained index-to-fields mapping of a category of the facade f, as a set.
ModelOf(f, key) == {Fields(key, HeapOf(f, key)[r]) : r \in Range(ListOf(f, key))}

\* An entity of the index i with no field set by any snapshot.
Blank(key, i) == IF key = KEY_OUTPUTS THEN Output(i, <<>>, None) ELSE Zone(i, <<>>, None)

\* The mapping the descriptor list alone determines.
Determined(key, descriptors) ==
    {Fields(key, Described(key, Blank(key, i), LastFor(descriptors, i))) :
        i \in ValidIndexes(descriptors)}

\* The facade f with nothing retained and no object created.
Emptied(f) == [info |-> f.info, outputs |-> <<>>, zones |-> <<>>,
               outHeap |-> <<>>, zoneHeap |-> <<>>]

C17_SnapshotDeterminesModel ==
    \A key \in Categories :
        (Returned /\ Reconciled(key) /\ ValidIndexes(arg[key]) # {}) =>
            /\ ModelOf(Facade, key) = Determined(key, arg[key])
            /\ ModelOf(Facade, key)
                   = ModelOf(update_device_status(Emptied(pre), arg).facade, key)

\* Before the call a zone of a listed index had a name, a state and the pass_type 0,
\* and a zone of an index that is not listed was retained; the snapshot's descriptor
\* has the index only.
C17_Witness ==
    /\ Returned
    /\ Reconciled(KEY_ZONES)
    /\ Len(arg[KEY_ZONES]) = 1
    /\ DOMAIN arg[KEY_ZONES][1] = {KEY_INDEX}
    /\ arg[KEY_ZONES][1][KEY_INDEX] >= 0
    /\ \E r \in Range(pre.zones) :
        /\ pre.zoneHeap[r].index = arg[KEY_ZONES][1][KEY_INDEX]
        /\ pre.zoneHeap[r].name # None
        /\ pre.zoneHeap[r].state # None
        /\ pre.zoneHeap[r].pass_type = 0
    /\ \E r \in Range(pre.zones) : pre.zoneHeap[r].index # arg[KEY_ZONES][1][KEY_INDEX]

(***************************************************************************)
(* C19.  When update_device_status reconciles a zone list without any      *)
(* valid index (the list empty, or every descriptor malformed), every zone *)
(* retained before is retained after, with the index, name, pass_type and  *)
(* serial it had; its state is None and its available is False.            *)
(***************************************************************************)
C19_MarkWritesStateOnly ==
    (Reconciled(KEY_ZONES) /\ ValidIndexes(arg[KEY_ZONES]) = {}) =>
        /\ zones = pre.zones
        /\ \A r \in Range(pre.zones) :
            zoneHeap[r] = [pre.zoneHeap[r] EXCEPT !.state = None, !.available = FALSE]

\* A list of malformed descriptors only has been reconciled while a zone with a
\* name, a state and the pass_type 0 was retained.
C19_Witness ==
    /\ Returned
    /\ Reconciled(KEY_ZONES)
    /\ arg[KEY_ZONES] # <<>>
    /\ ValidIndexes(arg[KEY_ZONES]) = {}
    /\ \E r \in Range(zones) :
        /\ pre.zoneHeap[r].state # None
        /\ zoneHeap[r].state = None
        /\ zoneHeap[r].name # None
        /\ zoneHeap[r].pass_type = 0

\* The same for the list that is present and empty.
C19_WitnessEmpty ==
    /\ Returned
    /\ Reconciled(KEY_ZONES)
    /\ arg[KEY_ZONES] = <<>>
    /\ \E r \in Range(zones) :
        /\ pre.zoneHeap[r].state # None
        /\ zoneHeap[r].state = None
        /\ zoneHeap[r].name # None
        /\ zoneHeap[r].pass_type = 0

(***************************************************************************)
(* C16.  In every reachable state, whatever snapshots the calls of         *)
(* update_device_status were given (duplicate, missing and negative        *)
(* indexes included), no two entities of the retained output list have the *)
(* same index, and no two entities of the retained zone list have the same *)
(* index.                                                                  *)
(***************************************************************************)
UniqueIndexes(list, heap) ==
    \A j, k \in DOMAIN list : heap[list[j]].index = heap[list[k]].index => j = k

C16_IndexesUnique ==
    /\ UniqueIndexes(outputs, outHeap)
    /\ UniqueIndexes(zones, zoneHeap)

\* Two entities were retained and the call was given two descriptors of one index,
\* or a descriptor of a negative index next to a valid one.
C16_Witness ==
    /\ Returned
    /\ Reconciled(KEY_OUTPUTS)
    /\ Len(pre.outputs) = 2
    /\ Len(arg[KEY_OUTPUTS]) = 2
    /\ outputs # <<>>
    /\ \/ /\ WellFormed(arg[KEY_OUTPUTS][1])
          /\ WellFormed(arg[KEY_OUTPUTS][2])
          /\ arg[KEY_OUTPUTS][1][KEY_INDEX] = arg[KEY_OUTPUTS][2][KEY_INDEX]
       \/ /\ KEY_INDEX \in DOMAIN arg[KEY_OUTPUTS][1]
          /\ arg[KEY_OUTPUTS][1][KEY_INDEX] < 0
          /\ WellFormed(arg[KEY_OUTPUTS][2])

(***************************************************************************)
(* C18.  An entity that is no longer in the retained list of its category  *)
(* has state None and available False, and no operation writes any of its  *)
(* fields or retains it again.  When update_device_status returns from a   *)
(* snapshot that lists the index of such an entity, the entity retained    *)
(* for that index is another object; if no entity of that index was        *)
(* retained before the call, it is an object this call created and         *)
(* returned in its delta.                                                  *)
(***************************************************************************)
\* The objects of a category that are not retained: every one of them was pruned,
\* as an entity is appended to the retained list when it is created.
Pruned(f, key) == DOMAIN HeapOf(f, key) \ Range(ListOf(f, key))

C18_PrunedStayDead ==
    \A key \in Categories :
        /\ \A r \in Pruned(Facade, key) :
            /\ HeapOf(Facade, key)[r].state = None
            /\ ~HeapOf(Facade, key)[r].available
        /\ op # "idle" =>
            \A r \in Pruned(pre, key) :
                /\ HeapOf(Facade, key)[r] = HeapOf(pre, key)[r]
                /\ r \in Pruned(Facade, key)
        /\ (Returned /\ Reconciled(key)) =>
            \A r \in Pruned(pre, key) :
                HeapOf(pre, key)[r].index \in ValidIndexes(arg[key]) =>
                    \E n \in Range(ListOf(Facade, key)) :
                        /\ n # r
                        /\ HeapOf(Facade, key)[n].index = HeapOf(pre, key)[r].index
                        /\ HeapOf(pre, key)[r].index \notin Indexes(pre, key)
                               => /\ n \notin DOMAIN HeapOf(pre, key)
                                  /\ n \in Range(ret[key])

\* The index of a pruned Output has been listed while no Output of that index was
\* retained: a second Output of that index exists, is retained, available and in
\* the delta, and the pruned one is as it was.
C18_Witness ==
    /\ Returned
    /\ Reconciled(KEY_OUTPUTS)
    /\ \E r \in Pruned(pre, KEY_OUTPUTS) :
        /\ pre.outHeap[r].index \in ValidIndexes(arg[KEY_OUTPUTS])
        /\ pre.outHeap[r].index \notin Indexes(pre, KEY_OUTPUTS)
        /\ outHeap[r].state = None
        /\ \E n \in Range(ret[KEY_OUTPUTS]) :
            /\ n # r
            /\ outHeap[n].index = outHeap[r].index
            /\ outHeap[n].available


=============================================================================
